---- MODULE Spec2Model ----
(***************************************************************************)
(* family_points_app.py: a Streamlit page over two files, config.json and  *)
(* logs.csv.  Every user event (a button, a form submit, a plain refresh)  *)
(* is one run of main(): load_config, load_logs, the sidebar, every child  *)
(* tab, the parent tab.  A handler that changes a file ends with           *)
(* do_rerun(), which starts the next run at once.                          *)
(*                                                                         *)
(* Text: Japanese literals of the source are romanised, since the module   *)
(* is ASCII: benkyo = study, kaji = chore, otetsudai = the legacy chore    *)
(* label, genten = penalty, sentaku-shinai = the "select nothing" entry.   *)
(* Floats: a float x is held as the integer x * FP, exact for every value  *)
(* the inputs below produce (multiples of 1/60).                           *)
(* Dates: a date is its offset in days from date.today().                  *)
(***************************************************************************)
EXTENDS Integers, Sequences, FiniteSets, TLC

VARIABLES
    config_file,    \* data/config.json: [present, parent_password, children, tasks]
    logs_file,      \* data/logs.csv: the rows, in file order (index = position - 1)
    is_parent,      \* st.session_state["is_parent"]
    study_buffer,   \* st.session_state["study_buffer"]: child -> ordered dict
    pc,             \* "start": no run yet; "idle": page shown; "rerun": do_rerun() called
    shown,          \* the message of the latest run: none, success, error, warning
    load_saved,     \* the latest load_config called save_config (line 220)
    second_load,    \* the latest run and the one before it were both runs with no event
    add_mark,       \* the latest accepted add-activity: its id and the tasks before it
    event,          \* the event of the latest run: the widget and the child tab it is on
    runs            \* per browser session, a run of main() taken step by step

vars == <<config_file, logs_file, is_parent, study_buffer, pc, shown,
          load_saved, second_load, add_mark, event, runs>>

(***************************************************************************)
(* Bounds of the model.                                                    *)
(***************************************************************************)
MaxStored == 2      \* tasks in a stored document that the app did not write
MaxId == 12         \* activity ids handed out
MaxChildren == 3    \* children in the configuration
MaxWork == 2        \* rows of the ledger plus the size of the buffers (see Presses)
MaxRows == 3        \* rows of the ledger that the forms add
MaxEdits == 1       \* edits away from the default state that SpecRefusals explores

(***************************************************************************)
(* Floats and text.                                                        *)
(***************************************************************************)
FP == 60
Float(n) == n * FP
FMul(a, b) == (a * b) \div FP
FDiv(a, b) == (a * FP) \div b

\* str.strip(): the padded texts of the model and what they strip to
Padded ==
    (" " :> "") @@ (" benkyo " :> "benkyo") @@ (" drill " :> "drill")
    @@ (" C " :> "C") @@ (" late " :> "late")

Strip(s) == IF s \in DOMAIN Padded THEN Padded[s] ELSE s

Range(s) == {s[i] : i \in DOMAIN s}

\* a function on 1..n, held as the tuple it is
Tuple(f) == f \o <<>>

\* max(..., default=0) over a sequence of integers
SeqMax(s) == CHOOSE m \in Range(s) \cup {0} : \A x \in Range(s) \cup {0} : x <= m

(***************************************************************************)
(* Constants of the program.                                               *)
(***************************************************************************)
STANDARD_STUDY_SUBJECTS == <<"sansu", "kokugo", "rika", "shakai", "eigo", "sonota">>
HOUSE_TASKS == <<"sara-arai", "sentakumono-katazuke", "souji", "katazuke">>

\* a JSON value under "points_per_hour": a number, or a value float() raises on
JNum(x) == [kind |-> "number", v |-> x]
JJunk == [kind |-> "junk", v |-> 0]

DefaultTask(i, cat, nm) ==
    [id |-> i, category |-> cat, name |-> nm, points_per_hour |-> JNum(Float(10))]

DEFAULT_CONFIG ==
    [parent_password |-> "otetsudai123",
     children |-> <<"A-chan", "B-kun">>,
     tasks |-> Tuple([i \in 1..10 |->
                  IF i <= 6 THEN DefaultTask(i, "benkyo", STANDARD_STUDY_SUBJECTS[i])
                  ELSE DefaultTask(i, "kaji", HOUSE_TASKS[i - 6])])]

NoFile == [present |-> FALSE, parent_password |-> "", children |-> <<>>, tasks |-> <<>>]

FileOf(config) ==
    [present |-> TRUE, parent_password |-> config.parent_password,
     children |-> config.children, tasks |-> config.tasks]

ConfigOf(file) ==
    [parent_password |-> file.parent_password, children |-> file.children,
     tasks |-> file.tasks]

(***************************************************************************)
(* load_config and its helpers.                                            *)
(***************************************************************************)
\* max((int(t.get("id", 0)) for t in tasks), default=0)
MaxIdOf(tasks) == SeqMax([i \in DOMAIN tasks |-> tasks[i].id])

\* float(t.get("points_per_hour", 10.0)), 10.0 when float() raises
ToFloat(raw) == IF raw.kind = "junk" THEN Float(10) ELSE raw.v

\* a preset test that looks at the name alone
HasTask_NameOnly(tasks, cat, nm) == \E i \in DOMAIN tasks : tasks[i].name = nm

HasTask(tasks, cat, nm) ==
    \E i \in DOMAIN tasks : Strip(tasks[i].category) = cat /\ tasks[i].name = nm

\* the loop shared by ensure_default_study_tasks and ensure_default_house_tasks:
\* names[k..] still to look at, max_id the running maximum
RECURSIVE EnsurePresets(_, _, _, _, _)
EnsurePresets(tasks, cat, names, k, max_id) ==
    IF k > Len(names) THEN tasks
    ELSE IF HasTask(tasks, cat, names[k])
         THEN EnsurePresets(tasks, cat, names, k + 1, max_id)
         ELSE EnsurePresets(Append(tasks, DefaultTask(max_id + 1, cat, names[k])),
                            cat, names, k + 1, max_id + 1)

ensure_default_study_tasks(tasks) ==
    EnsurePresets(tasks, "benkyo", STANDARD_STUDY_SUBJECTS, 1, MaxIdOf(tasks))

ensure_default_house_tasks(tasks) ==
    EnsurePresets(tasks, "kaji", HOUSE_TASKS, 1, MaxIdOf(tasks))

\* a load that only coerces the rate
PinnedRate_NotPinned(cat, raw) == ToFloat(raw)

\* the rate a task is left with
PinnedRate(cat, raw) == IF cat = "benkyo" THEN Float(10) ELSE ToFloat(raw)

\* the category a task is left with
SortedCategory(cat, nm) ==
    LET c1 == IF Strip(cat) = "otetsudai" THEN "kaji" ELSE Strip(cat)
    IN IF nm \in Range(STANDARD_STUDY_SUBJECTS) THEN "benkyo" ELSE c1

\* one pass of the loop over the existing tasks
NormalizeTask(t) ==
    LET cat == SortedCategory(t.category, t.name)
    IN [id |-> t.id, category |-> cat, name |-> t.name,
        points_per_hour |-> JNum(PinnedRate(cat, t.points_per_hour))]

\* line 211 sets changed for every task the loop visits
LoopChanged(tasks) == tasks # <<>>

\* load_config: the configuration returned, whether save_config was called,
\* and config.json afterwards
load_config(file) ==
    LET read == IF file.present THEN ConfigOf(file) ELSE DEFAULT_CONFIG
        t1 == Tuple([i \in DOMAIN read.tasks |-> NormalizeTask(read.tasks[i])])
        t2 == ensure_default_study_tasks(t1)
        t3 == ensure_default_house_tasks(t2)
        changed == LoopChanged(read.tasks) \/ t2 # t1 \/ t3 # t2
        config == [read EXCEPT !.tasks = t3]
    IN [config |-> config,
        saved |-> changed,
        file |-> IF changed THEN FileOf(config)
                 ELSE IF file.present THEN file ELSE FileOf(DEFAULT_CONFIG)]

(***************************************************************************)
(* Session state: init_session_state, get_study_buffer_for_child.  A       *)
(* Python dict is the sequence of its [k, v] entries in insertion order.   *)
(***************************************************************************)
DictHas(d, key) == \E i \in DOMAIN d : d[i].k = key

DictGet(d, key, default) ==
    IF DictHas(d, key) THEN d[CHOOSE i \in DOMAIN d : d[i].k = key].v ELSE default

DictSet(d, key, val) ==
    IF DictHas(d, key)
    THEN Tuple([i \in DOMAIN d |-> IF d[i].k = key THEN [k |-> key, v |-> val] ELSE d[i]])
    ELSE Append(d, [k |-> key, v |-> val])

\* the session's buffers after get_study_buffer_for_child(child_name)
get_study_buffer_for_child(buf_all, child_name) ==
    IF DictHas(buf_all, child_name) THEN buf_all ELSE DictSet(buf_all, child_name, <<>>)

\* main's loop over the child tabs, up to and including tab p
RECURSIVE RenderUpTo(_, _, _)
RenderUpTo(buf_all, children, p) ==
    IF p = 0 THEN buf_all
    ELSE get_study_buffer_for_child(RenderUpTo(buf_all, children, p - 1), children[p])

RenderAll(buf_all, children) == RenderUpTo(buf_all, children, Len(children))

PosOf(children, child) == CHOOSE p \in DOMAIN children : children[p] = child

Ev(op, child) == [op |-> op, child |-> child]

NoMark == [id |-> 0, before |-> <<>>, removed |-> FALSE]

\* config.json and the notes on it after a run whose handler did not write it
LoadOnly(L) ==
    /\ config_file' = L.file
    /\ load_saved' = L.saved
    /\ second_load' = FALSE

\* the same after a run whose handler called save_config(config)
LoadAndSave(L, config) ==
    /\ config_file' = FileOf(config)
    /\ load_saved' = L.saved
    /\ second_load' = FALSE

(***************************************************************************)
(* main with no event: the first page load, a refresh, or the run that     *)
(* do_rerun() starts.                                                      *)
(***************************************************************************)
DoRun(L) ==
       /\ config_file' = L.file
       /\ load_saved' = L.saved
       /\ second_load' = (event.op = "run")
       /\ study_buffer' = RenderAll(study_buffer, L.config.children)
       /\ pc' = "idle"
       /\ shown' = "none"
       /\ event' = Ev("run", "")
       /\ UNCHANGED <<logs_file, is_parent, add_mark, runs>>

(***************************************************************************)
(* parent_sidebar: it runs before the tabs are drawn.                      *)
(***************************************************************************)
PasswordInputs == {"otetsudai123", "himitsu"}

\* a login that takes any password
PasswordMatches_Any(pwd, config) == TRUE

\* pwd == config.get("parent_password", "") (line 276)
PasswordMatches(pwd, config) == pwd = config.parent_password

DoLogin(L, pwd) ==
       /\ pc = "idle"
       /\ ~is_parent
       /\ LoadOnly(L)
       /\ IF PasswordMatches(pwd, L.config)
          THEN /\ is_parent' = TRUE
               /\ pc' = "rerun"
               /\ shown' = "success"
               /\ UNCHANGED study_buffer
          ELSE /\ shown' = "error"
               /\ study_buffer' = RenderAll(study_buffer, L.config.children)
               /\ UNCHANGED <<is_parent, pc>>
       /\ event' = Ev("login", "")
       /\ UNCHANGED <<logs_file, add_mark, runs>>

DoLogout(L) ==
       /\ pc = "idle"
       /\ is_parent
       /\ LoadOnly(L)
       /\ is_parent' = FALSE
       /\ pc' = "rerun"
       /\ shown' = "none"
       /\ event' = Ev("logout", "")
       /\ UNCHANGED <<logs_file, study_buffer, add_mark, runs>>

(***************************************************************************)
(* render_parent_tab: the activities.  The parent tab is drawn after every *)
(* child tab, and only while is_parent holds.                              *)
(***************************************************************************)
CategoryInputs == {"kaji", "benkyo"}
NameInputs == {"", " ", "sansu", " drill "}
RateInputs == {Float(5)}

\* the duplicate test of the add form (lines 749-755)
NameTaken(tasks, category, name_stripped) ==
    \E i \in DOMAIN tasks :
        /\ Strip(tasks[i].category) = Strip(category)
        /\ Strip(tasks[i].name) = name_stripped

\* an id counted from the length of the list
NextId_ByLength(tasks) == Len(tasks) + 1

\* next_id (line 757)
NextId(tasks) == MaxIdOf(tasks) + 1

\* pph_to_save (lines 759-762)
RateToSave(category, pph) == IF category = "benkyo" THEN Float(10) ELSE pph

\* the tasks after an accepted add
AddTask(tasks, category, name_stripped, pph) ==
    Append(tasks, [id |-> NextId(tasks), category |-> category, name |-> name_stripped,
                   points_per_hour |-> JNum(RateToSave(category, pph))])

\* tasks = [t for t in tasks if int(t.get("id", 0)) != del_id]
RECURSIVE RemoveTask(_, _)
RemoveTask(tasks, del_id) ==
    IF tasks = <<>> THEN <<>>
    ELSE IF Head(tasks).id = del_id THEN RemoveTask(Tail(tasks), del_id)
         ELSE <<Head(tasks)>> \o RemoveTask(Tail(tasks), del_id)

\* the largest id once the next load_config has completed the presets again
IdsAfterReload(tasks) ==
    MaxIdOf(ensure_default_house_tasks(ensure_default_study_tasks(tasks)))

DoAddActivity(L, category, name, pph) ==
    LET tasks == L.config.tasks
        name_stripped == Strip(name)
    IN /\ pc = "idle"
       /\ is_parent
       /\ L.config.children # <<>>
       /\ study_buffer' = RenderAll(study_buffer, L.config.children)
       /\ IF name_stripped = "" \/ NameTaken(tasks, category, name_stripped)
          THEN /\ LoadOnly(L)
               /\ shown' = "error"
               /\ UNCHANGED <<pc, add_mark>>
          ELSE /\ NextId(tasks) <= MaxId
               /\ LoadAndSave(L, [L.config EXCEPT
                      !.tasks = AddTask(tasks, category, name_stripped, pph)])
               /\ add_mark' = [id |-> NextId(tasks), before |-> tasks, removed |-> FALSE]
               /\ shown' = "success"
               /\ pc' = "rerun"
       /\ event' = Ev("add_activity", "")
       /\ UNCHANGED <<logs_file, is_parent, runs>>

\* the delete box offers one label per task of this run; i is the task chosen
DoRemoveActivity(L, i) ==
    LET tasks == L.config.tasks
        del_id == tasks[i].id
        left == RemoveTask(tasks, del_id)
    IN /\ pc = "idle"
       /\ is_parent
       /\ i \in DOMAIN tasks
       /\ L.config.children # <<>>
       /\ IdsAfterReload(left) <= MaxId
       /\ study_buffer' = RenderAll(study_buffer, L.config.children)
       /\ LoadAndSave(L, [L.config EXCEPT !.tasks = left])
       /\ add_mark' = IF add_mark.id = del_id /\ ~add_mark.removed
                      THEN [add_mark EXCEPT !.removed = TRUE] ELSE NoMark
       /\ shown' = "success"
       /\ pc' = "rerun"
       /\ event' = Ev("remove_activity", "")
       /\ UNCHANGED <<logs_file, is_parent, runs>>

(***************************************************************************)
(* render_parent_tab: the children and the password.                       *)
(***************************************************************************)
ChildInputs == {"", " ", "A-chan", " C ", "D"}
SelectNothing == "sentaku-shinai"

\* an add-child button that only refuses the empty name
ChildRefused_EmptyOnly(children, new_child_stripped) == new_child_stripped = ""

\* the tests of the add-child button (lines 678-681)
ChildRefused(children, new_child_stripped) ==
    new_child_stripped = "" \/ new_child_stripped \in Range(children)

\* the test of the delete-child button (line 694)
LastChild(children) == Len(children) <= 1

\* [c for c in config["children"] if c != del_child]
RECURSIVE WithoutChild(_, _)
WithoutChild(children, del_child) ==
    IF children = <<>> THEN <<>>
    ELSE IF Head(children) = del_child THEN WithoutChild(Tail(children), del_child)
         ELSE <<Head(children)>> \o WithoutChild(Tail(children), del_child)

DoAddChild(L, new_child) ==
    LET children == L.config.children
        new_child_stripped == Strip(new_child)
    IN /\ pc = "idle"
       /\ is_parent
       /\ children # <<>>
       /\ study_buffer' = RenderAll(study_buffer, children)
       /\ IF ChildRefused(children, new_child_stripped)
          THEN /\ LoadOnly(L)
               /\ shown' = "error"
               /\ UNCHANGED pc
          ELSE /\ Len(children) < MaxChildren
               /\ LoadAndSave(L, [L.config EXCEPT
                      !.children = Append(children, new_child_stripped)])
               /\ shown' = "success"
               /\ pc' = "rerun"
       /\ event' = Ev("add_child", "")
       /\ UNCHANGED <<logs_file, is_parent, add_mark, runs>>

\* del_child is an entry of the select box: SelectNothing or a child
DoRemoveChild(L, del_child) ==
    LET children == L.config.children
    IN /\ pc = "idle"
       /\ is_parent
       /\ children # <<>>
       /\ del_child \in {SelectNothing} \cup Range(children)
       /\ study_buffer' = RenderAll(study_buffer, children)
       /\ IF del_child = SelectNothing
          THEN /\ LoadOnly(L)
               /\ shown' = "none"
               /\ UNCHANGED pc
          ELSE IF LastChild(children)
          THEN /\ LoadOnly(L)
               /\ shown' = "error"
               /\ UNCHANGED pc
          ELSE /\ LoadAndSave(L, [L.config EXCEPT
                      !.children = WithoutChild(children, del_child)])
               /\ shown' = "success"
               /\ pc' = "rerun"
       /\ event' = Ev("remove_child", "")
       /\ UNCHANGED <<logs_file, is_parent, add_mark, runs>>

NewPasswordInputs == {"", "himitsu"}

\* the password form: it saves and shows its message without a rerun
DoChangePassword(L, new_pwd, new_pwd2) ==
    /\ pc = "idle"
    /\ is_parent
    /\ L.config.children # <<>>
    /\ study_buffer' = RenderAll(study_buffer, L.config.children)
    /\ IF new_pwd = "" \/ new_pwd # new_pwd2
       THEN /\ LoadOnly(L)
            /\ shown' = "error"
       ELSE /\ LoadAndSave(L, [L.config EXCEPT !.parent_password = new_pwd])
            /\ shown' = "success"
    /\ event' = Ev("password", "")
    /\ UNCHANGED <<logs_file, is_parent, pc, add_mark, runs>>

(***************************************************************************)
(* The ledger: load_logs, save_logs and the helpers of render_child_tab.   *)
(* A row is [date, child, category, task, hours, points]; the index pandas *)
(* gives a row after load_logs is its position in the file.                *)
(***************************************************************************)
Row(d, child, category, task, hours, points) ==
    [date |-> d, child |-> child, category |-> category, task |-> task,
     hours |-> hours, points |-> points]

\* logs_df[logs_df["child"] == child_name].index
ChildRows(logs, child) == {i \in DOMAIN logs : logs[i].child = child}

SetMax(S) == CHOOSE m \in S : \A x \in S : x <= m

\* logs_df.drop(index=i)
DropIndex(logs, i) == SubSeq(logs, 1, i - 1) \o SubSeq(logs, i + 1, Len(logs))

\* an undo that drops the last row of the file
LatestIndex_OfFile(logs, child) == Len(logs)

\* the row the undo button drops (line 608)
LatestIndex(logs, child) == SetMax(ChildRows(logs, child))

\* find_task(config, category, name): the position of the first match, 0 for None
find_task(tasks, category, name) ==
    LET hits == {i \in DOMAIN tasks :
                    Strip(tasks[i].category) = Strip(category) /\ tasks[i].name = name}
    IN IF hits = {} THEN 0 ELSE CHOOSE i \in hits : \A j \in hits : i <= j

\* pph of the study buttons (lines 327-328, 390-391)
StudyRate(tasks, subj) ==
    LET i == find_task(tasks, "benkyo", subj)
    IN IF i = 0 THEN Float(10) ELSE ToFloat(tasks[i].points_per_hour)

\* hours = minutes / 60.0
HoursOf(minutes) == FDiv(Float(minutes), Float(60))

\* a flush that keeps the subjects at zero
RECURSIVE FlushRows_All(_, _, _)
FlushRows_All(buf, child, tasks) ==
    IF buf = <<>> THEN <<>>
    ELSE <<Row(0, child, "benkyo", Head(buf).k, HoursOf(Head(buf).v),
               FMul(HoursOf(Head(buf).v), StudyRate(tasks, Head(buf).k)))>>
         \o FlushRows_All(Tail(buf), child, tasks)

\* the rows the confirm button builds from the child's buffer (lines 386-403)
RECURSIVE FlushRows(_, _, _)
FlushRows(buf, child, tasks) ==
    IF buf = <<>> THEN <<>>
    ELSE IF Head(buf).v <= 0 THEN FlushRows(Tail(buf), child, tasks)
    ELSE <<Row(0, child, "benkyo", Head(buf).k, HoursOf(Head(buf).v),
               FMul(HoursOf(Head(buf).v), StudyRate(tasks, Head(buf).k)))>>
         \o FlushRows(Tail(buf), child, tasks)

\* a confirm that empties the buffer whatever it held
BufferAfterConfirm_Cleared(buf_all, child, rows) == DictSet(buf_all, child, <<>>)

\* the buffers the confirm button leaves (lines 404-409)
BufferAfterConfirm(buf_all, child, rows) ==
    IF rows = <<>> THEN buf_all ELSE DictSet(buf_all, child, <<>>)

\* a -15 button that only asks for a count
CanDecrement_Any(minutes) == minutes >= 0

\* the test of the -15 button (line 351)
CanDecrement(minutes) == minutes >= 15

\* the tasks the detail form offers for a category (lines 439-448)
RECURSIVE Options(_, _)
Options(tasks, category) ==
    IF tasks = <<>> THEN <<>>
    ELSE IF Strip(Head(tasks).category) = category
         THEN <<Head(tasks)>> \o Options(Tail(tasks), category)
         ELSE Options(Tail(tasks), category)

\* the row of the detail form (lines 481-489)
DetailRow(child, task, d, hours) ==
    Row(d, child, task.category, task.name, hours,
        FMul(ToFloat(task.points_per_hour), hours))

\* a penalty row that keeps the sign the parent typed
PenaltyRow_Unsigned(child, d, reason, minus_points) ==
    Row(d, child, "genten", Strip(reason), 0, minus_points)

\* the row of the penalty form (lines 580-587)
PenaltyRow(child, d, reason, minus_points) ==
    Row(d, child, "genten", Strip(reason), 0, 0 - minus_points)

\* the size of a buffer: an entry counts once for each +15 press it holds, and
\* once when it holds none
RECURSIVE Presses(_)
Presses(d) ==
    IF d = <<>> THEN 0
    ELSE (IF Head(d).v < 15 THEN 1 ELSE Head(d).v \div 15) + Presses(Tail(d))

RECURSIVE BufferedPresses(_)
BufferedPresses(buf_all) ==
    IF buf_all = <<>> THEN 0 ELSE Presses(Head(buf_all).v) + BufferedPresses(Tail(buf_all))

Work == Len(logs_file) + BufferedPresses(study_buffer)

(***************************************************************************)
(* render_child_tab(child_name, config, logs_df): the tab of one child.    *)
(* The tabs are drawn in the order of config["children"]; a handler that   *)
(* ends with do_rerun() stops the run there.                               *)
(***************************************************************************)
SubjectInputs == {"sansu", "kokugo"}
DateInputs == {0, -1}
PickInputs == {1}
HourInputs == {Float(1) \div 2}
ReasonInputs == {" ", " late "}
PenaltyInputs == {Float(1)}

TabOpen(L, child) ==
    /\ pc = "idle"
    /\ child \in Range(L.config.children)
    /\ L.config.tasks # <<>>

\* the buffers once the tabs up to this child's have been drawn
DrawnTo(L, child) ==
    RenderUpTo(study_buffer, L.config.children, PosOf(L.config.children, child))

\* the +15 button of a subject
DoPlus(L, child, subj) ==
    /\ TabOpen(L, child)
    /\ Work < MaxWork
    /\ LoadOnly(L)
    /\ LET buf_all == DrawnTo(L, child)
           buffer == DictGet(buf_all, child, <<>>)
           minutes == DictGet(buffer, subj, 0)
       IN study_buffer' = DictSet(buf_all, child, DictSet(buffer, subj, minutes + 15))
    /\ pc' = "rerun"
    /\ shown' = "none"
    /\ event' = Ev("plus", child)
    /\ UNCHANGED <<logs_file, is_parent, add_mark, runs>>

\* the -15 button of a subject
DoMinus(L, child, subj) ==
    /\ TabOpen(L, child)
    /\ LoadOnly(L)
    /\ LET buf_all == DrawnTo(L, child)
           buffer == DictGet(buf_all, child, <<>>)
           minutes == DictGet(buffer, subj, 0)
       IN IF CanDecrement(minutes)
          THEN /\ study_buffer' = DictSet(buf_all, child, DictSet(buffer, subj, minutes - 15))
               /\ pc' = "rerun"
          ELSE /\ study_buffer' = RenderAll(study_buffer, L.config.children)
               /\ UNCHANGED pc
    /\ shown' = "none"
    /\ event' = Ev("minus", child)
    /\ UNCHANGED <<logs_file, is_parent, add_mark, runs>>

\* the reset button
DoReset(L, child) ==
    /\ TabOpen(L, child)
    /\ LoadOnly(L)
    /\ study_buffer' = DictSet(DrawnTo(L, child), child, <<>>)
    /\ pc' = "rerun"
    /\ shown' = "none"
    /\ event' = Ev("reset", child)
    /\ UNCHANGED <<logs_file, is_parent, add_mark, runs>>

\* the confirm button: the flush of the child's buffer
DoConfirm(L, child) ==
    /\ TabOpen(L, child)
    /\ LoadOnly(L)
    /\ LET buf_all == DrawnTo(L, child)
           rows == FlushRows(DictGet(buf_all, child, <<>>), child, L.config.tasks)
       IN IF rows = <<>>
          THEN /\ shown' = "warning"
               /\ study_buffer' = RenderAll(BufferAfterConfirm(buf_all, child, rows),
                                            L.config.children)
               /\ UNCHANGED <<logs_file, pc>>
          ELSE /\ logs_file' = logs_file \o rows
               /\ study_buffer' = BufferAfterConfirm(buf_all, child, rows)
               /\ shown' = "success"
               /\ pc' = "rerun"
    /\ event' = Ev("confirm", child)
    /\ UNCHANGED <<is_parent, add_mark, runs>>

\* the detail form: the category of the radio, the k-th task offered
DoDetail(L, child, category, k, d, hours) ==
    /\ TabOpen(L, child)
    /\ LoadOnly(L)
    /\ LET options == Options(L.config.tasks, category)
       IN IF options = <<>>
          THEN /\ shown' = "error"
               /\ study_buffer' = RenderAll(study_buffer, L.config.children)
               /\ UNCHANGED <<logs_file, pc>>
          ELSE /\ k \in DOMAIN options
               /\ Len(logs_file) < MaxRows
               /\ logs_file' = Append(logs_file, DetailRow(child, options[k], d, hours))
               /\ study_buffer' = DrawnTo(L, child)
               /\ shown' = "success"
               /\ pc' = "rerun"
    /\ event' = Ev("detail", child)
    /\ UNCHANGED <<is_parent, add_mark, runs>>

\* what follows line 502 is drawn only for a child with rows
HasRows(child) == ChildRows(logs_file, child) # {}

\* lines 501-507: the child's rows, ordered by date (rows of one date keep
\* their order of entry)
RECURSIVE InsertByDate(_, _)
InsertByDate(sorted, r) ==
    IF sorted = <<>> THEN <<r>>
    ELSE IF sorted[Len(sorted)].date <= r.date THEN Append(sorted, r)
    ELSE Append(InsertByDate(SubSeq(sorted, 1, Len(sorted) - 1), r),
                sorted[Len(sorted)])

RECURSIVE SortByDate(_)
SortByDate(rows) ==
    IF rows = <<>> THEN <<>>
    ELSE InsertByDate(SortByDate(SubSeq(rows, 1, Len(rows) - 1)), rows[Len(rows)])

child_df(logs, child_name) ==
    LET Mine(r) == r.child = child_name
    IN SortByDate(SelectSeq(logs, Mine))

\* the sum of a column of points
RECURSIVE SumPoints(_)
SumPoints(rows) ==
    IF rows = <<>> THEN 0 ELSE rows[1].points + SumPoints(Tail(rows))

\* a total over every date, where line 510 keeps the rows of today
today_points_AllDays(logs, child_name) == SumPoints(child_df(logs, child_name))

\* lines 509-511: dates are counted from today, so today is 0
today_points(logs, child_name) ==
    LET Today(r) == r.date = 0
    IN SumPoints(SelectSeq(child_df(logs, child_name), Today))

\* lines 502-504 and 523: the total on the child's tab, not drawn when the
\* tab ends at the note that no points are registered yet
NoTotal == [drawn |-> FALSE, today_points |-> 0]

TodayShown(logs, child_name) ==
    IF ChildRows(logs, child_name) = {} THEN NoTotal
    ELSE [drawn |-> TRUE, today_points |-> today_points(logs, child_name)]

\* the penalty form, drawn for a parent
DoPenalty(L, child, d, reason, minus_points) ==
    /\ TabOpen(L, child)
    /\ HasRows(child)
    /\ is_parent
    /\ LoadOnly(L)
    /\ IF Strip(reason) = ""
       THEN /\ shown' = "error"
            /\ study_buffer' = RenderAll(study_buffer, L.config.children)
            /\ UNCHANGED <<logs_file, pc>>
       ELSE /\ Len(logs_file) < MaxRows
            /\ logs_file' = Append(logs_file, PenaltyRow(child, d, reason, minus_points))
            /\ study_buffer' = DrawnTo(L, child)
            /\ shown' = "success"
            /\ pc' = "rerun"
    /\ event' = Ev("penalty", child)
    /\ UNCHANGED <<is_parent, add_mark, runs>>

\* the undo button
DoUndo(L, child) ==
    /\ TabOpen(L, child)
    /\ HasRows(child)
    /\ LoadOnly(L)
    /\ IF ChildRows(logs_file, child) = {}
       THEN /\ shown' = "warning"
            /\ study_buffer' = RenderAll(study_buffer, L.config.children)
            /\ UNCHANGED <<logs_file, pc>>
       ELSE /\ logs_file' = DropIndex(logs_file, LatestIndex(logs_file, child))
            /\ study_buffer' = DrawnTo(L, child)
            /\ shown' = "success"
            /\ pc' = "rerun"
    /\ event' = Ev("undo", child)
    /\ UNCHANGED <<is_parent, add_mark, runs>>

\* the delete box, drawn for a parent: 0 is SelectNothing, i a row of the child
DoDelete(L, child, i) ==
    /\ TabOpen(L, child)
    /\ HasRows(child)
    /\ is_parent
    /\ i \in {0} \cup ChildRows(logs_file, child)
    /\ LoadOnly(L)
    /\ IF i = 0
       THEN /\ shown' = "warning"
            /\ study_buffer' = RenderAll(study_buffer, L.config.children)
            /\ UNCHANGED <<logs_file, pc>>
       ELSE /\ logs_file' = DropIndex(logs_file, i)
            /\ study_buffer' = DrawnTo(L, child)
            /\ shown' = "success"
            /\ pc' = "rerun"
    /\ event' = Ev("delete", child)
    /\ UNCHANGED <<is_parent, add_mark, runs>>

(***************************************************************************)
(* Initial states.                                                         *)
(***************************************************************************)
\* two browser sessions on the one data directory
Sessions == {1, 2}

\* no run of the session has loaded the ledger yet
NoRun == [at |-> "none", logs_df |-> <<>>, config |-> DEFAULT_CONFIG,
          together |-> FALSE, row |-> Row(0, "", "", "", 0, 0)]

\* the ledger as if the run read logs.csv again just before it saves
RunLedger_Fresh(s) == logs_file

\* line 857: the logs_df handed to the tab is the one line 840 loaded
RunLedger(s) == runs[s].logs_df

\* lines 838-840 of a run in session s: load_config, which may write
\* config.json, then load_logs; the run holds what it read until it ends
DoLoadLogs(L, s) ==
    /\ runs[s].at # "loaded"
    /\ config_file' = L.file
    /\ load_saved' = L.saved
    /\ LET both == \E o \in Sessions \ {s} : runs[o].at = "loaded"
       IN runs' = [o \in Sessions |->
                     IF o = s
                     THEN [at |-> "loaded", logs_df |-> logs_file, config |-> L.config,
                           together |-> both, row |-> NoRun.row]
                     ELSE IF runs[o].at = "loaded"
                          THEN [runs[o] EXCEPT !.together = TRUE]
                          ELSE runs[o]]
    /\ UNCHANGED <<logs_file, is_parent, study_buffer, pc, shown, second_load,
                   add_mark, event>>

\* lines 477-496 of the same run: the submit of the detail form appends to
\* the run's logs_df and writes the whole of it over logs.csv
DoSaveDetail(s, child, category, k, d, hours) ==
    /\ runs[s].at = "loaded"
    /\ child \in Range(runs[s].config.children)
    /\ LET options == Options(runs[s].config.tasks, category)
       IN /\ k \in DOMAIN options
          /\ Len(RunLedger(s)) < MaxRows
          /\ LET new_row == DetailRow(child, options[k], d, hours)
             IN /\ logs_file' = Append(RunLedger(s), new_row)
                /\ runs' = [runs EXCEPT ![s].at = "saved", ![s].row = new_row]
    /\ UNCHANGED <<config_file, is_parent, study_buffer, pc, shown, load_saved,
                   second_load, add_mark, event>>

FreshSession ==
    /\ logs_file = <<>>
    /\ is_parent = FALSE
    /\ study_buffer = <<>>
    /\ pc = "start"
    /\ shown = "none"
    /\ load_saved = FALSE
    /\ second_load = FALSE
    /\ add_mark = NoMark
    /\ event = Ev("none", "")
    /\ runs = [s \in Sessions |-> NoRun]

\* no config.json yet: the first run writes DEFAULT_CONFIG
Init ==
    /\ config_file = NoFile
    /\ FreshSession

\* a config.json that the app did not write: tasks a parent typed, or an
\* older version left
StoredCategories == {" benkyo ", "otetsudai"}
StoredNames == {"sansu", "sara-arai", "drill"}
StoredRates == {JNum(Float(5)), JJunk}

StoredTask(i, cat, nm, rate) ==
    [id |-> i, category |-> cat, name |-> nm, points_per_hour |-> rate]

StoredTaskLists ==
    UNION {[1..n -> {StoredTask(0, c, nm, r) :
                        c \in StoredCategories, nm \in StoredNames, r \in StoredRates}]
           : n \in 0..MaxStored}

\* the i-th stored task has id i
Numbered(tasks) == Tuple([i \in DOMAIN tasks |-> [tasks[i] EXCEPT !.id = i]])

InitStored ==
    /\ \E tasks \in StoredTaskLists :
          config_file = FileOf([DEFAULT_CONFIG EXCEPT !.tasks = Numbered(tasks)])
    /\ FreshSession

(***************************************************************************)
(* Specifications.                                                         *)
(***************************************************************************)
\* main: config = load_config(), handed to the sidebar and to every tab
Loaded == {load_config(config_file)}

\* a widget answers once the page is drawn
Idle == pc = "idle"

Run == \E L \in Loaded : DoRun(L)
Login == Idle /\ \E L \in Loaded, pwd \in PasswordInputs : DoLogin(L, pwd)
Logout == Idle /\ \E L \in Loaded : DoLogout(L)
AddActivity ==
    Idle /\ \E L \in Loaded, c \in CategoryInputs, nm \in NameInputs, r \in RateInputs :
        DoAddActivity(L, c, nm, r)
RemoveActivity == Idle /\ \E L \in Loaded : \E i \in DOMAIN L.config.tasks : DoRemoveActivity(L, i)

AddChild == Idle /\ \E L \in Loaded, nm \in ChildInputs : DoAddChild(L, nm)
RemoveChild ==
    Idle /\ \E L \in Loaded : \E c \in {SelectNothing} \cup Range(L.config.children) :
        DoRemoveChild(L, c)
ChangePassword ==
    Idle /\ \E L \in Loaded, p1 \in NewPasswordInputs, p2 \in PasswordInputs :
        DoChangePassword(L, p1, p2)

Children(L) == Range(L.config.children)

Plus == Idle /\ \E L \in Loaded : \E c \in Children(L), subj \in SubjectInputs : DoPlus(L, c, subj)
Minus == Idle /\ \E L \in Loaded : \E c \in Children(L), subj \in SubjectInputs : DoMinus(L, c, subj)
Reset == Idle /\ \E L \in Loaded : \E c \in Children(L) : DoReset(L, c)
Confirm == Idle /\ \E L \in Loaded : \E c \in Children(L) : DoConfirm(L, c)
Detail ==
    Idle /\ \E L \in Loaded : \E c \in Children(L), cat \in CategoryInputs :
        \E k \in PickInputs, d \in DateInputs, h \in HourInputs :
            DoDetail(L, c, cat, k, d, h)
Penalty ==
    Idle /\ \E L \in Loaded : \E c \in Children(L), d \in DateInputs, reason \in ReasonInputs,
                          m \in PenaltyInputs :
        DoPenalty(L, c, d, reason, m)
Undo == Idle /\ \E L \in Loaded : \E c \in Children(L) : DoUndo(L, c)
Delete == Idle /\ \E L \in Loaded : \E c \in Children(L), i \in 0..Len(logs_file) : DoDelete(L, c, i)

NextBuffer == Run \/ Plus \/ Minus \/ Reset \/ Confirm

NextLedger == Run \/ Detail \/ Undo

NextTasks == Run \/ Login \/ Logout \/ AddActivity \/ RemoveActivity

NextStored == Run \/ Login \/ Logout \/ AddActivity

NextChildren == Run \/ Login \/ Logout \/ AddChild \/ RemoveChild \/ ChangePassword

\* how far the state is from the first page of a fresh installation: rows of
\* the ledger, buffer entries, names the default does not have (stored as
\* children or left in the buffers), activities the default does not have,
\* children of the default that are gone, a password that was changed
Edits ==
    Len(logs_file) + BufferedPresses(study_buffer)
    + Cardinality(({study_buffer[i].k : i \in DOMAIN study_buffer}
                   \cup Range(config_file.children)) \ Range(DEFAULT_CONFIG.children))
    + (IF config_file.present
       THEN Cardinality(Range(DEFAULT_CONFIG.children) \ Range(config_file.children))
            + Cardinality({i \in DOMAIN config_file.tasks :
                              config_file.tasks[i].id > Len(DEFAULT_CONFIG.tasks)})
            + (IF config_file.parent_password = DEFAULT_CONFIG.parent_password
               THEN 0 ELSE 1)
       ELSE 0)

Few == Edits' <= MaxEdits

NextRefusals ==
    \/ Run /\ Few
    \/ Login /\ Few
    \/ AddActivity /\ Few
    \/ AddChild /\ Few
    \/ RemoveChild /\ Few
    \/ ChangePassword /\ Few
    \/ Plus /\ Few
    \/ Minus /\ Few
    \/ Confirm /\ Few
    \/ Detail /\ Few
    \/ Penalty /\ Few
    \/ Undo /\ Few
    \/ Delete /\ Few

\* the widgets that can refuse, a few edits away from the default
SpecRefusals == Init /\ [][NextRefusals]_vars

\* the children and the password, from the default configuration
SpecChildren == Init /\ [][NextChildren]_vars

\* a child's page: the study buttons
SpecBuffer == Init /\ [][NextBuffer]_vars

\* a child's page: the detail form and the undo button
SpecLedger == Init /\ [][NextLedger]_vars

\* the activities, from the default configuration
SpecTasks == Init /\ [][NextTasks]_vars

\* the activities, from any stored document
SpecStored == InitStored /\ [][NextStored]_vars

\* the run stays on the first child's page and leaves at most MaxWork rows
\* and buffer entries
FirstTab ==
    /\ event'.child \in {"", DEFAULT_CONFIG.children[1]}
    /\ Work' <= MaxWork

NextRows ==
    \/ Run /\ FirstTab
    \/ Login /\ FirstTab
    \/ Plus /\ FirstTab
    \/ Confirm /\ FirstTab
    \/ Detail /\ FirstTab
    \/ Penalty /\ FirstTab
    \/ Undo /\ FirstTab
    \/ Delete /\ FirstTab

\* every way a row enters or leaves the ledger, on one child's page
SpecRows == Init /\ [][NextRows]_vars

\* one area away from the first page of a fresh installation: the children
\* (with the buffers kept for them), the activities (with the note of the
\* latest add), the password, or rows of the first child
Near ==
    LET B(x) == IF x THEN 1 ELSE 0
        file == config_file'
        kept == {study_buffer'[i].k : i \in DOMAIN study_buffer'}
    IN /\ B(\/ file.present /\ file.children # DEFAULT_CONFIG.children
            \/ ~(kept \subseteq Range(DEFAULT_CONFIG.children)))
          + B(\/ file.present /\ file.tasks # DEFAULT_CONFIG.tasks
              \/ add_mark' # NoMark)
          + B(file.present /\ file.parent_password # DEFAULT_CONFIG.parent_password)
          + B(logs_file' # <<>>) <= 1
       /\ Len(logs_file') <= MaxWork
       /\ \A i \in DOMAIN logs_file' : logs_file'[i].child = DEFAULT_CONFIG.children[1]

NextParent ==
    \/ Run /\ Near
    \/ Login /\ Near
    \/ Logout /\ Near
    \/ AddActivity /\ Near
    \/ RemoveActivity /\ Near
    \/ AddChild /\ Near
    \/ RemoveChild /\ Near
    \/ ChangePassword /\ Near
    \/ Detail /\ Near
    \/ Penalty /\ Near
    \/ Delete /\ Near

\* everything a parent can do, and the rows a penalty needs
SpecParent == Init /\ [][NextParent]_vars

\* two sessions, each run taken in its two steps
LoadLogs == \E L \in Loaded : \E s \in Sessions : DoLoadLogs(L, s)
SaveDetail ==
    \E s \in Sessions, c \in Range(DEFAULT_CONFIG.children), k \in PickInputs,
       hours \in HourInputs :
        DoSaveDetail(s, c, "benkyo", k, 0, hours)

NextSessions == LoadLogs \/ SaveDetail

SpecSessions == Init /\ [][NextSessions]_vars

(***************************************************************************)
(* Properties.                                                             *)
(***************************************************************************)
Tasks == config_file.tasks

PresetPairs ==
    {<<"benkyo", nm>> : nm \in Range(STANDARD_STUDY_SUBJECTS)}
    \cup {<<"kaji", nm>> : nm \in Range(HOUSE_TASKS)}

\* how many tasks hold the pair (category, name)
PairCount(tasks, pair) ==
    Cardinality({i \in DOMAIN tasks :
                    tasks[i].category = pair[1] /\ tasks[i].name = pair[2]})

Occurrences(s, x) == Cardinality({i \in DOMAIN s : s[i] = x})

SameBag(s, t) == \A x \in Range(s) \cup Range(t) : Occurrences(s, x) = Occurrences(t, x)

\* C1: once load_config has run, and after any add, every activity of the
\* study category has points_per_hour exactly 10.0.
C1_StudyRatePinned ==
    pc # "start" =>
        \A i \in DOMAIN Tasks :
            Tasks[i].category = "benkyo" => Tasks[i].points_per_hour = JNum(Float(10))

\* a stored study activity (id 1, a rate of 5.0 or unparseable in the file) is
\* at 10.0, and the parent has just added a study activity entering 5.0
C1_Witness ==
    /\ pc = "rerun"
    /\ shown = "success"
    /\ add_mark.id = Tasks[Len(Tasks)].id
    /\ \E i \in DOMAIN Tasks :
          /\ Tasks[i].id = 1 /\ Tasks[i].category = "benkyo" /\ Tasks[i].name = "sara-arai"
          /\ Tasks[i].points_per_hour = JNum(Float(10))
    /\ Tasks[Len(Tasks)].category = "benkyo" /\ Tasks[Len(Tasks)].name = "drill"

C3_SecondLoadWritesNothing == second_load => ~load_saved

\* C4: no two activities share (category, name).
C4_NoDuplicatePair ==
    \A i, j \in DOMAIN Tasks :
        (Tasks[i].category = Tasks[j].category /\ Tasks[i].name = Tasks[j].name) => i = j

\* C5: once the activity that the latest accepted add created has been
\* removed by its id, the activities are those from before the add.
C5_AddThenRemoveRestores == add_mark.removed => SameBag(Tasks, add_mark.before)

\* the added activity was removed, the page has reloaded, and the list it
\* was added to was not the default one
C5_Witness ==
    /\ add_mark.removed
    /\ pc = "idle"
    /\ add_mark.before # DEFAULT_CONFIG.tasks

Children_ == config_file.children

\* the minutes a child's buffer holds for a subject
Minutes(buf_all, child, subj) == DictGet(DictGet(buf_all, child, <<>>), subj, 0)

BufferKeys(buf_all) ==
    UNION {{<<buf_all[i].k, buf_all[i].v[j].k>> : j \in DOMAIN buf_all[i].v} :
              i \in DOMAIN buf_all}

\* C6: when the undo button of a child acts, the ledger loses exactly the row
\* with the largest index among that child's rows; every other row stays,
\* unchanged and in the same order.
C6_UndoRemovesLatest ==
    [][event'.op = "undo" =>
          \E i \in ChildRows(logs_file, event'.child) :
              /\ \A j \in ChildRows(logs_file, event'.child) : j <= i
              /\ Len(logs_file') = Len(logs_file) - 1
              /\ \A j \in DOMAIN logs_file' :
                     logs_file'[j] = logs_file[IF j < i THEN j ELSE j + 1]]_vars

\* the undo button of A-chan has acted on a ledger whose last row was B-kun's
\* and which held two rows of A-chan
C6_Witness ==
    /\ event = Ev("undo", "A-chan")
    /\ shown = "success"
    /\ Len(logs_file) = 2
    /\ logs_file[1].child = "A-chan"
    /\ logs_file[2].child = "B-kun"

\* the children are at least one and pairwise distinct
ChildrenDistinct ==
    config_file.present =>
        /\ Len(Children_) >= 1
        /\ \A i, j \in DOMAIN Children_ : (Children_[i] = Children_[j]) => (i = j)

\* a removal acts only on two or more children; an add appends a trimmed,
\* non-empty name that is not stored yet
ChildrenStep ==
    /\ (event'.op = "remove_child" /\ Children_' # Children_) =>
           (Len(Children_) >= 2 /\ Len(Children_') = Len(Children_) - 1)
    /\ (event'.op = "add_child" /\ Children_' # Children_) =>
           \E nm \in {Strip(x) : x \in ChildInputs} \ ({""} \cup Range(Children_)) :
               Children_' = Append(Children_, nm)

\* C7: from the default configuration, under any sequence of add-child and
\* remove-child, the stored children are at least one and pairwise distinct;
\* a removal only acts while two or more children are stored, and an add only
\* appends a trimmed, non-empty name that is not stored yet.
C7_ChildrenKept == []ChildrenDistinct /\ [][ChildrenStep]_vars

\* the remove button has been refused on the only child left
C7_Witness ==
    /\ event = Ev("remove_child", "")
    /\ shown = "error"
    /\ Len(Children_) = 1

\* C8: an action that ends with an error or a warning leaves config.json,
\* the ledger and the study buffers as they were.
C8_RejectedChangesNothing ==
    [][shown' \in {"error", "warning"} =>
          /\ config_file' = config_file
          /\ logs_file' = logs_file
          /\ study_buffer' = study_buffer]_vars

\* a penalty with a blank reason has been refused on a ledger that holds a row
C8_Witness ==
    /\ event.op = "penalty"
    /\ shown = "error"
    /\ logs_file # <<>>

\* C9: when the confirm button of a child acts, the ledger keeps its rows and
\* gains, after them, one row per subject of the child's buffer with minutes
\* above zero: that child, the study category, hours = minutes / 60, points =
\* hours * 10.0 (the rate of every study activity); the child's buffer is then
\* empty.  When no subject is above zero the ledger does not change.
C9_FlushAppendsPerSubject ==
    [][event'.op = "confirm" =>
          LET child == event'.child
              buf == DictGet(study_buffer, child, <<>>)
              held == {i \in DOMAIN buf : buf[i].v > 0}
              n == Len(logs_file)
          IN /\ Len(logs_file') = n + Cardinality(held)
             /\ SubSeq(logs_file', 1, n) = logs_file
             /\ \A i \in held :
                    Cardinality({j \in (n + 1)..Len(logs_file') :
                                    logs_file'[j].task = buf[i].k}) = 1
             /\ \A j \in (n + 1)..Len(logs_file') :
                    \E i \in held :
                        logs_file'[j] =
                            Row(0, child, "benkyo", buf[i].k, FDiv(Float(buf[i].v), Float(60)),
                                FMul(FDiv(Float(buf[i].v), Float(60)), Float(10)))
             /\ (held # {}) => (DictGet(study_buffer', child, <<>>) = <<>>)
             /\ \A c \in Range(Children_) \ {child}, subj \in Range(STANDARD_STUDY_SUBJECTS) :
                    Minutes(study_buffer', c, subj) = Minutes(study_buffer, c, subj)]_vars

\* the confirm button has flushed two subjects of one child
C9_Witness ==
    /\ event.op = "confirm"
    /\ shown = "success"
    /\ Len(logs_file) = 2
    /\ logs_file[1].child = event.child
    /\ logs_file[2].child = event.child
    /\ logs_file[1].task # logs_file[2].task
    /\ DictGet(study_buffer, event.child, <<>>) = <<>>

\* every buffered count is a non-negative multiple of 15
BufferMultiples ==
    \A k \in BufferKeys(study_buffer) :
        /\ Minutes(study_buffer, k[1], k[2]) >= 0
        /\ Minutes(study_buffer, k[1], k[2]) % 15 = 0

\* a +15 or -15 press moves at most the count of one subject of its child, by
\* 15; +15 always moves one, -15 only a count of 15 or more
BufferStep ==
    event'.op \in {"plus", "minus"} =>
        LET step == IF event'.op = "plus" THEN 15 ELSE -15
            keys == BufferKeys(study_buffer) \cup BufferKeys(study_buffer')
            moved == {k \in keys : Minutes(study_buffer', k[1], k[2])
                                      # Minutes(study_buffer, k[1], k[2])}
        IN /\ Cardinality(moved) <= 1
           /\ (event'.op = "plus") => (Cardinality(moved) = 1)
           /\ \A k \in moved :
                  /\ k[1] = event'.child
                  /\ Minutes(study_buffer', k[1], k[2])
                        = Minutes(study_buffer, k[1], k[2]) + step
                  /\ (event'.op = "minus") => (Minutes(study_buffer, k[1], k[2]) >= 15)

\* C10: every buffered count is a non-negative multiple of 15; a -15 press
\* changes a count only when it holds 15 or more, a +15 or -15 press changes
\* the count of one subject of its child by 15 and no other count.
C10_BufferSteps == []BufferMultiples /\ [][BufferStep]_vars

\* a -15 press on a subject below 15 has changed nothing while another
\* subject holds minutes
C10_Witness ==
    /\ event.op = "minus"
    /\ pc = "idle"
    /\ \E k \in BufferKeys(study_buffer) : Minutes(study_buffer, k[1], k[2]) = 15

\* the sum of the points of the rows at the indices in S
RECURSIVE IndexSum(_, _)
IndexSum(logs, S) ==
    IF S = {} THEN 0
    ELSE LET i == CHOOSE j \in S : TRUE
         IN logs[i].points + IndexSum(logs, S \ {i})

\* C11, the step: a detailed entry that is accepted appends exactly one row
\* after the rows there were, made of the date, the child, the category and
\* name of the chosen activity, the hours, and the rate times the hours
DetailStep ==
    (event'.op = "detail" /\ shown' = "success") =>
        \E i \in DOMAIN config_file'.tasks, d \in DateInputs, h \in HourInputs :
            LET a == config_file'.tasks[i]
            IN logs_file' = Append(logs_file,
                                   Row(d, event'.child, a.category, a.name, h,
                                       FMul(a.points_per_hour.v, h)))

\* the children whose tab can be open
TabChildren == Range(DEFAULT_CONFIG.children) \cup Range(config_file.children)

\* C11, the total: the today total of a child is the sum of the points of
\* exactly the rows of that child dated today, and a child without rows is
\* shown no total; a ledger holding only a study entry of half an hour dated
\* today shows 5.0 to its child and nothing to any other child
TodayTotals ==
    /\ \A c \in TabChildren :
          /\ today_points(logs_file, c)
               = IndexSum(logs_file, {i \in DOMAIN logs_file :
                                         /\ logs_file[i].child = c
                                         /\ logs_file[i].date = 0})
          /\ (ChildRows(logs_file, c) = {}) = (TodayShown(logs_file, c) = NoTotal)
    /\ (/\ Len(logs_file) = 1
        /\ logs_file[1].category = "benkyo"
        /\ logs_file[1].hours = Float(1) \div 2
        /\ logs_file[1].date = 0)
       => \A c \in TabChildren :
             TodayShown(logs_file, c)
               = IF c = logs_file[1].child
                   THEN [drawn |-> TRUE, today_points |-> Float(5)]
                   ELSE NoTotal

\* C11: a detailed entry appends its one row last, and the today total of a
\* child sums the child's rows of today
C11_DetailRowAndTodayTotal == []TodayTotals /\ [][DetailStep]_vars

\* a study entry of half an hour dated today in an empty ledger, and a
\* ledger where a row of yesterday stays out of the total
C11_Witness ==
    /\ event = Ev("detail", "A-chan")
    /\ logs_file = <<Row(0, "A-chan", "benkyo", "sansu", Float(1) \div 2, Float(5))>>
    /\ TodayShown(logs_file, "A-chan") = [drawn |-> TRUE, today_points |-> Float(5)]
    /\ TodayShown(logs_file, "B-kun") = NoTotal

\* C12: with two sessions and no locking the later save wins on the whole
\* ledger: when both runs loaded the ledger before either saved and each
\* appended a row, the save of the later writer leaves its own snapshot and
\* its own row, and the row the earlier writer appended and reported is not
\* in the ledger any more
C12_LastWriteWins ==
    [][\A s \in Sessions, o \in Sessions :
          (/\ s # o
           /\ runs[s].at = "loaded" /\ runs[s].together
           /\ runs[o].at = "saved" /\ runs[o].together
           /\ runs'[s].at = "saved")
          => /\ logs_file' = Append(runs[s].logs_df, runs'[s].row)
             /\ Len(logs_file') = Len(runs[s].logs_df) + 1
             /\ (runs[o].row # runs'[s].row
                   => Occurrences(logs_file', runs[o].row)
                        = Occurrences(runs[s].logs_df, runs[o].row))]_vars

\* both sessions loaded the empty ledger, both saved a row and reported it,
\* and the ledger holds the one row of the second session
C12_Witness ==
    /\ \A s \in Sessions : runs[s].at = "saved" /\ runs[s].together /\ runs[s].logs_df = <<>>
    /\ runs[1].row # runs[2].row
    /\ logs_file = <<runs[2].row>>
    /\ Occurrences(logs_file, runs[1].row) = 0

\* C14: activity ids are handed out in increasing order, so the id that an
\* accepted add hands out is greater than the id handed out to the activity
\* that was added before it and has since been removed
C14_IdNotReused ==
    [][(event'.op = "add_activity" /\ shown' = "success" /\ add_mark.removed)
          => add_mark'.id > add_mark.id]_vars

\* what only a parent is offered: the penalty form and the delete box of a
\* child's page, and the widgets of the parent tab
ParentOps ==
    {"penalty", "delete", "add_child", "remove_child", "add_activity",
     "remove_activity", "password"}

ParentStep ==
    /\ (~is_parent /\ is_parent')
          => /\ event'.op = "login"
             /\ shown' = "success"
    /\ \A L \in Loaded, pwd \in PasswordInputs :
          (DoLogin(L, pwd) /\ is_parent') => pwd = config_file.parent_password
    /\ (event'.op \in ParentOps) => (is_parent /\ is_parent')
    /\ (event'.op = "logout") => ~is_parent'

\* C13: is_parent starts false and turns true only in a login whose password
\* is the one config.json holds at that moment; a penalty row, the deletion
\* of a row, and every change of the children, the activities and the
\* password happen only while is_parent holds, and a logout leaves is_parent
\* false, so none of them happens again before another login succeeds
C13_ParentGating == [](pc = "start" => ~is_parent) /\ [][ParentStep]_vars

\* a parent has entered a penalty row
C13_Witness ==
    /\ event.op = "penalty"
    /\ shown = "success"
    /\ is_parent
    /\ logs_file[Len(logs_file)].category = "genten"

\* C15: in every ledger the study flush, the detail form, the penalty form,
\* the undo button and the delete box can leave, a row has negative points
\* exactly when its category is penalty; a penalty row has hours 0 and
\* points of -1 or less, and any other row has hours above 0 and points
\* above 0
C15_PenaltyRowsAreTheNegativeOnes ==
    \A i \in DOMAIN logs_file :
        LET r == logs_file[i]
        IN /\ (r.points < 0) <=> (r.category = "genten")
           /\ (r.category = "genten") => (r.hours = 0 /\ r.points <= 0 - Float(1))
           /\ (r.category # "genten") => (r.hours > 0 /\ r.points > 0)

\* a penalty row has just been entered after a row that earned points
C15_Witness ==
    /\ event.op = "penalty"
    /\ shown = "success"
    /\ \E i, j \in DOMAIN logs_file :
          /\ logs_file[i].category = "genten" /\ logs_file[i].points < 0
          /\ logs_file[j].category = "benkyo" /\ logs_file[j].points > 0
====
